---- MODULE Spec2Model ----
(***************************************************************************)
(* Model of toolkit/scripts/process_check_logs.py (the package test log    *)
(* classifier, the JUnit test case builder and the Markdown renderer) and  *)
(* of the result reporting loop of toolkit/scripts/run_ptests.py.          *)
(*                                                                         *)
(* A log line is a record                                                  *)
(*   lead  : the fields of line.split(" ")[0].split("=")                   *)
(*   marks : the marker regexes that .search() finds in the line           *)
(*   exit  : group 1 of PACKAGE_TEST_END_REGEX (only read on an end match) *)
(*   breaks: the line boundaries str.splitlines() finds inside the line    *)
(*           (form feed, vertical tab, U+2028, ...), which file iteration  *)
(*           does not treat as line ends                                   *)
(* An optional value is <<>> (None) or <<v>>.                              *)
(* The local time zone of the process is utc_offset (its UTC offset in     *)
(* force, in seconds), tzname_utc ("UTC" is one of its names, that is      *)
(* "UTC" in time.tzname) and tzname_now_utc (the name in force is "UTC").  *)
(* markdown_report tells whether --markdown-report was given.              *)
(* A record of test_results is a TLA+ record with the keys it has.         *)
(***************************************************************************)
EXTENDS Integers, Sequences, FiniteSets, TLC

VARIABLES f, utc_offset, tzname_utc, tzname_now_utc, idx, status, start_time, end_time, pc,
          elapsed_time, tc, md,
          test_results, markdown_report, ri, counts, events, exit_code, ppc

scanVars   == <<f, utc_offset, tzname_utc, tzname_now_utc, idx, status, start_time, end_time, pc,
                elapsed_time, tc, md>>
ptestVars  == <<test_results, markdown_report, ri, counts, events, exit_code, ppc>>
vars       == <<f, utc_offset, tzname_utc, tzname_now_utc, idx, status, start_time, end_time, pc,
                elapsed_time, tc, md,
                test_results, markdown_report, ri, counts, events, exit_code, ppc>>

\* Longest log (in lines) and longest results mapping (in records) explored.
MaxLines == 3
MaxRecords == 3

None == <<>>
Some(v) == <<v>>

SeqsUpTo(S, n) == UNION {[1..k -> S] : k \in 0..n}

-----------------------------------------------------------------------------
(* Timestamp extraction *)

\* str.replace('"', '') on the values the leading tokens below carry.
StripQuotes(s) ==
  CASE s = "\"2024-01-01T00:00:00\""     -> "2024-01-01T00:00:00"
    [] s = "\"2024-01-01T00:00:42\""     -> "2024-01-01T00:00:42"
    [] s = "\"2024-01-01T00:00:00Z\""    -> "2024-01-01T00:00:00Z"
    [] s = "\"0001-01-01T00:00:00\""     -> "0001-01-01T00:00:00"
    [] s = "\"99999999999999999999999\"" -> "99999999999999999999999"
    [] s = "\"garbage\""                 -> "garbage"
    [] s = "\""                          -> ""
    [] OTHER                             -> s

\* The local time zones explored: UTC; a zone named UTC one hour east of
\* Greenwich (TZ=UTC-1); a zone one hour east whose daylight saving name is
\* UTC while its standard name is in force (TZ=XYZ-1UTC-2,M3.5.0,M10.5.0);
\* and a zone one hour east with no name UTC.
LocalZones ==
  { [utc_offset |-> 0,    tzname_utc |-> TRUE,  tzname_now_utc |-> TRUE],
    [utc_offset |-> 3600, tzname_utc |-> TRUE,  tzname_now_utc |-> TRUE],
    [utc_offset |-> 3600, tzname_utc |-> TRUE,  tzname_now_utc |-> FALSE],
    [utc_offset |-> 3600, tzname_utc |-> FALSE, tzname_now_utc |-> FALSE] }

\* The tzinfo dateutil attaches for the suffix Z (zone name UTC, offset 0):
\* tzlocal() when UTC is among the names of the local zone, replaced by UTC
\* when the name then in force is not UTC; UTC when it is not among them.
TzinfoForZ ==
  IF tzname_utc /\ tzname_now_utc THEN "local" ELSE "utc"

\* dateutil.parser.parse on the strings the leading tokens below carry.
\* exc names the exception raised ("" for none); otherwise the datetime is
\* wall (its wall clock reading, as seconds since 1970-01-01T00:00:00),
\* tzinfo ("none" for a naive datetime, "utc", or "local" for tzlocal())
\* and year1 (it lies in year 1).
Parse(s) ==
  CASE s = "2024-01-01T00:00:00" ->
         [exc |-> "", wall |-> 1704067200, tzinfo |-> "none", year1 |-> FALSE]
    [] s = "2024-01-01T00:00:42" ->
         [exc |-> "", wall |-> 1704067242, tzinfo |-> "none", year1 |-> FALSE]
    [] s = "2024-01-01T00:00:00Z" ->
         [exc |-> "", wall |-> 1704067200, tzinfo |-> TzinfoForZ, year1 |-> FALSE]
    [] s = "0001-01-01T00:00:00" ->
         [exc |-> "", wall |-> 0, tzinfo |-> "none", year1 |-> TRUE]
    [] s = "99999999999999999999999" ->
         [exc |-> "OverflowError", wall |-> 0, tzinfo |-> "none", year1 |-> FALSE]
    [] s = "garbage" ->
         [exc |-> "ParserError", wall |-> 0, tzinfo |-> "none", year1 |-> FALSE]
    [] s = "" ->
         [exc |-> "ParserError", wall |-> 0, tzinfo |-> "none", year1 |-> FALSE]

\* datetime.timestamp(): a datetime in UTC gives its wall clock reading; a
\* naive one, or one in tzlocal(), is read as local time; a naive datetime in
\* year 1 raises ValueError (year 0 is out of range).
Timestamp(dt) ==
  IF dt.tzinfo = "utc" THEN [raised |-> FALSE, exc |-> "", value |-> Some(dt.wall)]
  ELSE IF dt.tzinfo = "none" /\ dt.year1
    THEN [raised |-> TRUE, exc |-> "ValueError", value |-> None]
  ELSE [raised |-> FALSE, exc |-> "", value |-> Some(dt.wall - utc_offset)]

\* _get_timestamp.  split(" ")[0].split("=")[1] raises IndexError when the
\* leading token has no '='.  Only a ValueError of the try block is caught
\* (ParserError is one); OverflowError from parse and the ValueError of
\* timestamp(), which is outside the try, escape.
GetTimestamp(line) ==
  IF Len(line.lead) < 2
    THEN [raised |-> TRUE, exc |-> "IndexError", value |-> None]
    ELSE LET dt == Parse(StripQuotes(line.lead[2]))
         IN  IF dt.exc = "ParserError"
               THEN [raised |-> FALSE, exc |-> "", value |-> None]
             ELSE IF dt.exc # ""
               THEN [raised |-> TRUE, exc |-> dt.exc, value |-> None]
             ELSE Timestamp(dt)

\* _get_test_status
GetTestStatus(s) == IF s = "0" THEN "Pass" ELSE "Fail"

-----------------------------------------------------------------------------
(* Marker regexes *)

\* A variant that treats a line as echo noise only when nothing else matches.
IgnoreMatchExclusive(line) == line.marks = {"ignore"}

IgnoreMatch(line) == "ignore" \in line.marks
StartMatch(line)  == "start" \in line.marks
EndMatch(line)    == "end" \in line.marks
SkipMatch(line)   == "skip" \in line.marks

-----------------------------------------------------------------------------
(* The log lines explored *)

TsA     == <<"time", "\"2024-01-01T00:00:00\"">>
TsB     == <<"time", "\"2024-01-01T00:00:42\"">>
TsZ     == <<"time", "\"2024-01-01T00:00:00Z\"">>
TsYear1 == <<"time", "\"0001-01-01T00:00:00\"">>
TsHuge  == <<"time", "\"99999999999999999999999\"">>
TsBad   == <<"time", "\"garbage\"">>
NoEq    == <<"INFO:">>
MsgLead == <<"msg", "\"", "", "", "", "", "", "">>

Ln(lead, marks, exit) ==
  [lead |-> lead, marks |-> marks, exit |-> exit, breaks |-> 0]

\* A line without marker whose message holds one form feed.
FormFeedLine == [lead |-> TsA, marks |-> {}, exit |-> "", breaks |-> 1]

Lines ==
  { Ln(TsA, {}, ""),
    FormFeedLine,
    Ln(TsA, {"ignore"}, ""),
    Ln(TsA, {"ignore", "start"}, ""),
    Ln(TsB, {"ignore", "end"}, "1"),
    Ln(TsA, {"ignore", "skip"}, ""),
    Ln(TsA, {"start"}, ""),
    Ln(TsB, {"start"}, ""),
    Ln(TsZ, {"start"}, ""),
    Ln(TsYear1, {"start"}, ""),
    Ln(TsBad, {"start"}, ""),
    Ln(MsgLead, {"start"}, ""),
    Ln(NoEq, {"start"}, ""),
    Ln(TsB, {"end"}, "0"),
    Ln(TsB, {"end"}, "1"),
    Ln(TsA, {"end"}, "00"),
    Ln(TsBad, {"end"}, "0"),
    Ln(TsHuge, {"end"}, "0"),
    Ln(NoEq, {"end"}, "0"),
    Ln(TsA, {"skip"}, ""),
    Ln(TsA, {"start", "end"}, "0"),
    Ln(TsA, {"start", "skip"}, ""),
    Ln(TsB, {"end", "skip"}, "1") }

-----------------------------------------------------------------------------
(* _get_test_details, one loop iteration at a time.  A scan state is       *)
(* [status, start_time, end_time, ctl] with ctl the way the iteration      *)
(* leaves the loop body: "continue", "break" or "raise".                   *)

ScanInit == [status |-> "Not Supported", start_time |-> None,
             end_time |-> None, ctl |-> "continue"]

\* A variant that keeps an earlier start time when the new one is missing.
OnStartKeep(s, ts) ==
  IF ts.raised THEN [s EXCEPT !.ctl = "raise"]
  ELSE IF ts.value = None THEN s
  ELSE [s EXCEPT !.start_time = ts.value]

\* start_time = self._get_timestamp(line)
OnStart(s, ts) ==
  IF ts.raised THEN [s EXCEPT !.ctl = "raise"]
  ELSE [s EXCEPT !.start_time = ts.value]

\* end_time = ...; status = self._get_test_status(...); break
OnEnd(s, ts, exit) ==
  IF ts.raised THEN [s EXCEPT !.ctl = "raise"]
  ELSE [s EXCEPT !.end_time = ts.value, !.status = GetTestStatus(exit),
                 !.ctl = "break"]

\* A variant without the break.
OnSkipNoBreak(s) == [s EXCEPT !.status = "Skipped"]

\* status = "Skipped"; break
OnSkip(s) == [s EXCEPT !.status = "Skipped", !.ctl = "break"]

\* The body of `for line in f`.
LoopBody(s, line) ==
  IF IgnoreMatch(line) THEN s
  ELSE
    LET s1 == IF StartMatch(line) THEN OnStart(s, GetTimestamp(line)) ELSE s
    IN  IF s1.ctl = "raise" THEN s1
        ELSE IF EndMatch(line) THEN OnEnd(s1, GetTimestamp(line), line.exit)
        ELSE IF SkipMatch(line) THEN OnSkip(s1)
        ELSE s1

\* A variant that reports Aborted whenever a start time exists.
AbortedCheckStartOnly(st, start, end) ==
  IF start # None THEN "Aborted" ELSE st

\* A variant with the end time test inverted.
AbortedCheckEndSet(st, start, end) ==
  IF start # None /\ end # None THEN "Aborted" ELSE st

\* if start_time != None and end_time == None: status = "Aborted"
AbortedCheck(st, start, end) ==
  IF start # None /\ end = None THEN "Aborted" ELSE st

\* _get_test_details as a function of the whole line sequence.
RECURSIVE ScanFrom(_, _, _)
ScanFrom(lines, i, s) ==
  IF i > Len(lines) THEN s
  ELSE LET s1 == LoopBody(s, lines[i])
       IN  IF s1.ctl = "continue" THEN ScanFrom(lines, i + 1, s1) ELSE s1

GetTestDetails(lines) ==
  LET s == ScanFrom(lines, 1, ScanInit)
  IN  IF s.ctl = "raise"
        THEN [raised |-> TRUE, status |-> s.status,
              start_time |-> s.start_time, end_time |-> s.end_time]
        ELSE [raised |-> FALSE,
              status |-> AbortedCheck(s.status, s.start_time, s.end_time),
              start_time |-> s.start_time, end_time |-> s.end_time]

-----------------------------------------------------------------------------
(* _get_test_output, _build_junit_test_case, test_suite_to_markdown *)

LINES_TO_SHOW == 100

\* _get_test_output: the lines kept (each as its index in the log and its
\* inner line boundaries), from the first non-ignored start marker up to and
\* including the first end marker; " ".join keeps them in order.
RECURSIVE OutputFrom(_, _, _, _)
OutputFrom(lines, i, start_log, contents) ==
  IF i > Len(lines) THEN contents
  ELSE IF IgnoreMatch(lines[i]) THEN OutputFrom(lines, i + 1, start_log, contents)
  ELSE LET sl == start_log \/ StartMatch(lines[i])
           c  == IF sl THEN Append(contents, [line |-> i, breaks |-> lines[i].breaks])
                       ELSE contents
       IN  IF EndMatch(lines[i]) THEN c ELSE OutputFrom(lines, i + 1, sl, c)

GetTestOutput(lines) == OutputFrom(lines, 1, FALSE, <<>>)

\* junit_xml.TestCase(name, classname, elapsed_sec, stdout) and the
\* add_failure_info / add_skipped_info / add_error_info calls.
BuildJunitTestCase(st, time, lines) ==
  LET base == [time     |-> time,
               stdout   |-> IF st = "Fail" THEN Some(GetTestOutput(lines)) ELSE None,
               failures |-> <<>>, skipped |-> <<>>, errors |-> <<>>]
  IN  CASE st = "Pass"    -> base
        [] st = "Fail"    -> [base EXCEPT !.failures =
                               <<"TEST FAILED. CHECK ATTACHMENTS TAB FOR FAILURE LOG">>]
        [] st = "Skipped" -> [base EXCEPT !.skipped = <<"PACKAGE TEST SKIPPED">>]
        [] st = "Not Supported" ->
                             [base EXCEPT !.skipped = <<"PACKAGE TEST NOT SUPPORTED">>]
        [] OTHER          -> [base EXCEPT !.errors = <<st>>]

LastN(seq, n) ==
  IF Len(seq) <= n THEN seq ELSE SubSeq(seq, Len(seq) - n + 1, Len(seq))

\* str.splitlines() on the joined stdout: every kept line gives one piece
\* more than it has inner line boundaries; a piece is <<line, piece number>>.
RECURSIVE SplitLines(_)
SplitLines(stdout) ==
  IF stdout = <<>> THEN <<>>
  ELSE [k \in 1..(Head(stdout).breaks + 1) |-> <<Head(stdout).line, k>>]
         \o SplitLines(Tail(stdout))

\* The result line and the output block written for one test case.
TestCaseToMarkdown(t) ==
  [result |-> IF Len(t.failures) > 0 THEN "FAILED"
              ELSE IF Len(t.skipped) > 0 THEN "SKIPPED"
              ELSE "PASSED",
   output |-> IF Len(t.failures) > 0
                THEN Some(LastN(SplitLines(t.stdout[1]), LINES_TO_SHOW)) ELSE None]

\* elapsed_time of _analyze_package_test_log
ElapsedTime(start, end) ==
  IF start # None /\ end # None THEN end[1] - start[1] ELSE 0

-----------------------------------------------------------------------------
(* The log processing run for one package test log *)

\* The six counters of run_ptests.py, all zero before the reporting loop.
InitialCounts == [unexpected_fail |-> 0, expected_fail |-> 0, skip |-> 0,
                  block |-> 0, expected_success |-> 0, unexpected_success |-> 0]

PtestIdle ==
  /\ test_results = <<>>
  /\ markdown_report = FALSE
  /\ ri = 0
  /\ counts = InitialCounts
  /\ events = <<>>
  /\ exit_code = None
  /\ ppc = "idle"

Init ==
  /\ f \in SeqsUpTo(Lines, MaxLines)
  /\ \E z \in LocalZones : /\ utc_offset = z.utc_offset
                           /\ tzname_utc = z.tzname_utc
                           /\ tzname_now_utc = z.tzname_now_utc
  /\ idx = 0
  /\ status = ScanInit.status
  /\ start_time = ScanInit.start_time
  /\ end_time = ScanInit.end_time
  /\ pc = "scan"
  /\ elapsed_time = 0
  /\ tc = None
  /\ md = None
  /\ PtestIdle

\* One iteration of `for line in f` in _get_test_details.
ReadLine ==
  /\ pc = "scan"
  /\ idx < Len(f)
  /\ LET s1 == LoopBody([status |-> status, start_time |-> start_time,
                         end_time |-> end_time, ctl |-> "continue"], f[idx + 1])
     IN  /\ status' = s1.status
         /\ start_time' = s1.start_time
         /\ end_time' = s1.end_time
         /\ pc' = CASE s1.ctl = "continue" -> "scan"
                    [] s1.ctl = "break"    -> "post"
                    [] s1.ctl = "raise"    -> "raised"
  /\ idx' = idx + 1
  /\ UNCHANGED <<f, utc_offset, tzname_utc, tzname_now_utc, elapsed_time, tc, md>>
  /\ UNCHANGED ptestVars

\* The iterator is exhausted: the loop ends without a break.
StopIteration ==
  /\ pc = "scan"
  /\ idx = Len(f)
  /\ pc' = "post"
  /\ UNCHANGED <<f, utc_offset, tzname_utc, tzname_now_utc, idx, status, start_time, end_time, elapsed_time, tc, md>>
  /\ UNCHANGED ptestVars

\* The Aborted check after the loop and the return of _get_test_details.
ReturnDetails ==
  /\ pc = "post"
  /\ status' = AbortedCheck(status, start_time, end_time)
  /\ pc' = "returned"
  /\ UNCHANGED <<f, utc_offset, tzname_utc, tzname_now_utc, idx, start_time, end_time, elapsed_time, tc, md>>
  /\ UNCHANGED ptestVars

\* The rest of _analyze_package_test_log.
AnalyzePackageTestLog ==
  /\ pc = "returned"
  /\ elapsed_time' = ElapsedTime(start_time, end_time)
  /\ pc' = "analyzed"
  /\ UNCHANGED <<f, utc_offset, tzname_utc, tzname_now_utc, idx, status, start_time, end_time, tc, md>>
  /\ UNCHANGED ptestVars

\* _build_junit_test_case, called from scan_package_test_logs.
BuildTestCase ==
  /\ pc = "analyzed"
  /\ tc' = Some(BuildJunitTestCase(status, elapsed_time, f))
  /\ pc' = "built"
  /\ UNCHANGED <<f, utc_offset, tzname_utc, tzname_now_utc, idx, status, start_time, end_time, elapsed_time, md>>
  /\ UNCHANGED ptestVars

\* test_suite_to_markdown for the test case of this log.
TestSuiteToMarkdown ==
  /\ pc = "built"
  /\ md' = Some(TestCaseToMarkdown(tc[1]))
  /\ pc' = "rendered"
  /\ UNCHANGED <<f, utc_offset, tzname_utc, tzname_now_utc, idx, status, start_time, end_time, elapsed_time, tc>>
  /\ UNCHANGED ptestVars

Next ==
  \/ ReadLine
  \/ StopIteration
  \/ ReturnDetails
  \/ AnalyzePackageTestLog
  \/ BuildTestCase
  \/ TestSuiteToMarkdown

Spec == Init /\ [][Next]_vars

-----------------------------------------------------------------------------
(* run_ptests.py: the result reporting loop and the exit status check.     *)
(* test_results is the mapping read from test_results.json, as the         *)
(* sequence of its records in iteration order.  LogPath is "absent" when   *)
(* the record has no such key, else tells whether open(LogPath) succeeds.  *)

Results == {"skipped", "blocked", "failed", "succeeded", "timeout"}

\* What becomes of open(LogPath) and readlines() on it: the log is read,
\* open raises FileNotFoundError, or readlines raises UnicodeDecodeError.
LogPaths == {"readable", "unopenable", "undecodable"}

\* The records explored.  LogPath is read for failed records only; the
\* others carry a readable one or none.  A record may lack any of its keys.
Records ==
  {r \in [Result : Results, ExpectedFailure : BOOLEAN, LogPath : LogPaths] :
     r.Result # "failed" => r.LogPath = "readable"}
  \cup [Result : {"failed"}, ExpectedFailure : BOOLEAN]
  \cup {[Result |-> "succeeded", ExpectedFailure |-> FALSE],
        [ExpectedFailure |-> FALSE, LogPath |-> "readable"],
        [Result |-> "skipped", LogPath |-> "readable"]}

\* srpm_results["Result"] or srpm_results["ExpectedFailure"] raises KeyError.
RecordKeyError(r) ==
  "Result" \notin DOMAIN r \/ "ExpectedFailure" \notin DOMAIN r

\* The counter updates of one iteration of the reporting loop.
CountRecord(c, r) ==
  CASE r.Result = "skipped" -> [c EXCEPT !.skip = @ + 1]
    [] r.Result = "blocked" -> [c EXCEPT !.block = @ + 1]
    [] r.Result = "failed"  ->
         IF r.ExpectedFailure THEN [c EXCEPT !.expected_fail = @ + 1]
                              ELSE [c EXCEPT !.unexpected_fail = @ + 1]
    [] r.Result = "succeeded" ->
         IF r.ExpectedFailure THEN [c EXCEPT !.unexpected_success = @ + 1]
                              ELSE [c EXCEPT !.expected_success = @ + 1]
    [] OTHER -> c

\* The reporter callback one iteration invokes.
ReporterCall(r) ==
  CASE r.Result = "skipped"   -> "on_skipped"
    [] r.Result = "blocked"   -> "on_blocked"
    [] r.Result = "failed"    -> "on_failed"
    [] r.Result = "succeeded" -> "on_succeeded"
    [] OTHER                  -> "on_unknown_result"

\* reporters: ReadableTestReporter, and MarkdownTestReporter when
\* --markdown-report is given.
Reporters(mdr) ==
  IF mdr THEN <<"ReadableTestReporter", "MarkdownTestReporter">>
         ELSE <<"ReadableTestReporter">>

\* The exception that ends an iteration of the reporting loop ("" for none):
\* a missing Result or ExpectedFailure key raises KeyError at the head of
\* the iteration; in the failed branch srpm_results["LogPath"] raises
\* KeyError before any reporter is called, and MarkdownTestReporter.on_failed
\* raises in open(log_path) or in log_file.readlines().
ReportException(r, mdr) ==
  IF RecordKeyError(r) THEN "KeyError"
  ELSE IF r.Result # "failed" THEN ""
  ELSE IF "LogPath" \notin DOMAIN r THEN "KeyError"
  ELSE IF mdr /\ r.LogPath = "unopenable" THEN "FileNotFoundError"
  ELSE IF mdr /\ r.LogPath = "undecodable" THEN "UnicodeDecodeError"
  ELSE ""

\* The reporter callbacks one iteration enters, in order.
ReporterCalls(r, mdr) ==
  IF ReportException(r, mdr) = "KeyError" THEN <<>>
  ELSE [i \in 1..Len(Reporters(mdr)) |-> <<Reporters(mdr)[i], ReporterCall(r)>>]

\* A variant of the exit check that forgets blocked tests.
ExitStatusFailOnly(c) == IF c.unexpected_fail > 0 THEN 1 ELSE 0

\* if unexpected_fail_count > 0 or block_count > 0: sys.exit(1)
ExitStatus(c) == IF c.unexpected_fail > 0 \/ c.block > 0 THEN 1 ELSE 0

ScanIdle ==
  /\ f = <<>>
  /\ utc_offset = 0
  /\ tzname_utc = TRUE
  /\ tzname_now_utc = TRUE
  /\ idx = 0
  /\ status = ScanInit.status
  /\ start_time = None
  /\ end_time = None
  /\ pc = "idle"
  /\ elapsed_time = 0
  /\ tc = None
  /\ md = None

InitPtests ==
  /\ test_results \in SeqsUpTo(Records, MaxRecords)
  /\ markdown_report \in BOOLEAN
  /\ ri = 0
  /\ counts = InitialCounts
  /\ events = <<>>
  /\ exit_code = None
  /\ ppc = "report"
  /\ ScanIdle

\* One iteration of `for srpm_name, srpm_results in test_results.items()`.
\* The two keys are read first, then the counter is updated, then the
\* reporters are called; no exception is caught, and one ends the process
\* with status 1.
ReportResult ==
  /\ ppc = "report"
  /\ ri < Len(test_results)
  /\ counts' = IF RecordKeyError(test_results[ri + 1])
                 THEN counts
                 ELSE CountRecord(counts, test_results[ri + 1])
  /\ events' = events \o ReporterCalls(test_results[ri + 1], markdown_report)
  /\ ri' = ri + 1
  /\ IF ReportException(test_results[ri + 1], markdown_report) = ""
       THEN UNCHANGED <<exit_code, ppc>>
       ELSE exit_code' = Some(1) /\ ppc' = "crashed"
  /\ UNCHANGED <<test_results, markdown_report>>
  /\ UNCHANGED scanVars

\* The summary and the exit status check after the loop.
ExitCheck ==
  /\ ppc = "report"
  /\ ri = Len(test_results)
  /\ exit_code' = Some(ExitStatus(counts))
  /\ ppc' = "exited"
  /\ UNCHANGED <<test_results, markdown_report, ri, counts, events>>
  /\ UNCHANGED scanVars

NextPtests ==
  \/ ReportResult
  \/ ExitCheck

SpecPtests == InitPtests /\ [][NextPtests]_vars

-----------------------------------------------------------------------------
(* Properties of the log scan (checked under Spec) *)

\* _get_test_details has returned (the later steps leave its result alone).
Returned == pc \in {"returned", "analyzed", "built", "rendered"}

Result == <<status, start_time, end_time>>

IsIgnored(l)  == "ignore" \in l.marks
IsStart(l)    == ~IsIgnored(l) /\ "start" \in l.marks
IsEnd(l)      == ~IsIgnored(l) /\ "end" \in l.marks
IsSkipOnly(l) == ~IsIgnored(l) /\ "skip" \in l.marks /\ "end" \notin l.marks
IsStop(l)     == IsEnd(l) \/ IsSkipOnly(l)

Min(S) == CHOOSE x \in S : \A y \in S : x <= y
Max(S) == CHOOSE x \in S : \A y \in S : x >= y

\* Index of the first non-ignored end or skip line, 0 when there is none.
FirstStop(lines) ==
  LET S == {i \in 1..Len(lines) : IsStop(lines[i])}
  IN  IF S = {} THEN 0 ELSE Min(S)

\* Index of the last non-ignored start line among the first n, 0 when none.
LastStart(lines, n) ==
  LET S == {i \in 1..n : IsStart(lines[i])}
  IN  IF S = {} THEN 0 ELSE Max(S)

NotIgnored(l) == ~IsIgnored(l)

\* C1: the scan never raises, whatever the lines are.
C1_NeverRaises == pc # "raised"

\* C2: when the scan stops at an end marker, the returned status is Pass for
\* the exit status "0" and Fail for any other, whether or not the start and
\* end timestamps parsed.
C2_EndMarkerDecidesStatus ==
  (Returned /\ FirstStop(f) > 0 /\ IsEnd(f[FirstStop(f)]))
    => status = (IF f[FirstStop(f)].exit = "0" THEN "Pass" ELSE "Fail")

\* C3: when the scan stops at a skip marker, the returned status is Skipped,
\* also after a start marker whose timestamp parsed.
C3_SkipMarkerGivesSkipped ==
  (Returned /\ FirstStop(f) > 0 /\ IsSkipOnly(f[FirstStop(f)]))
    => status = "Skipped"

\* C4 as stated: a start marker on a non-ignored line with no end or skip
\* marker in the log gives Aborted, start_time set, end_time None.
C4_StartSeenGivesAborted ==
  (Returned /\ FirstStop(f) = 0 /\ LastStart(f, Len(f)) > 0)
    => (status = "Aborted" /\ start_time # None /\ end_time = None)

\* C4 amended: with no end or skip marker in the log, a returning scan gives
\* Aborted with start_time set and end_time None exactly when the timestamp
\* of the last non-ignored start marker parses; when it does not parse the
\* result is (Not Supported, None, None).
C4_ParsedStartGivesAborted ==
  (Returned /\ FirstStop(f) = 0 /\ LastStart(f, Len(f)) > 0)
    => LET ts == GetTimestamp(f[LastStart(f, Len(f))]).value
       IN  IF ts # None
             THEN Result = <<"Aborted", ts, None>>
             ELSE Result = <<"Not Supported", None, None>>

C4_Witness ==
  /\ Returned
  /\ FirstStop(f) = 0
  /\ LastStart(f, Len(f)) > 0
  /\ status = "Aborted"
  /\ start_time # None

\* C5: in every returned result, end_time is set only with status Pass or
\* Fail, and start_time is set only if a scanned non-ignored line matched the
\* start marker.
C5_TimesOnlyWithMarkers ==
  Returned =>
    /\ (end_time # None => status \in {"Pass", "Fail"})
    /\ (start_time # None => LastStart(f, idx) > 0)

C5_Witness ==
  /\ Returned
  /\ end_time # None
  /\ start_time # None
  /\ status \in {"Pass", "Fail"}

\* C6: the scan ends at the first non-ignored end or skip line: no later line
\* is read, and the outcome is the outcome of scanning the prefix that ends
\* at that line.
C6_StopsAtFirstEndOrSkip ==
  FirstStop(f) > 0 =>
    LET k == FirstStop(f)
        r == GetTestDetails(SubSeq(f, 1, k))
    IN  /\ idx <= k
        /\ Returned => (idx = k /\ ~r.raised
                        /\ Result = <<r.status, r.start_time, r.end_time>>)
        /\ pc = "raised" => r.raised

C6_Witness ==
  /\ Returned
  /\ FirstStop(f) > 0
  /\ FirstStop(f) < Len(f)
  /\ \E j \in (FirstStop(f) + 1)..Len(f) :
       (IsStart(f[j]) \/ IsStop(f[j])) /\ GetTimestamp(f[j]).value # None
                                        /\ f[j] # f[FirstStop(f)]

\* C7: a line matching the ignore marker changes neither status nor the two
\* times and never stops the scan, whatever else it matches; so the outcome
\* is the outcome for the log without its ignore lines, and a log of ignore
\* lines only gives (Not Supported, None, None).
C7_IgnoreStepFrame ==
  (pc = "scan" /\ idx < Len(f) /\ IsIgnored(f[idx + 1]))
    => (Result' = Result /\ pc' = "scan")

C7_IgnoreOutcome ==
  LET r == GetTestDetails(SelectSeq(f, NotIgnored))
  IN  /\ Returned => (~r.raised /\ Result = <<r.status, r.start_time, r.end_time>>)
      /\ pc = "raised" => r.raised
      /\ (Returned /\ \A i \in 1..Len(f) : IsIgnored(f[i]))
           => Result = <<"Not Supported", None, None>>
      /\ (\A i \in 1..Len(f) : IsIgnored(f[i])) => pc # "raised"

C7_IgnoreLinesHaveNoEffect == [][C7_IgnoreStepFrame]_vars /\ []C7_IgnoreOutcome

C7_Witness ==
  /\ Returned
  /\ \E i \in 1..idx : IsIgnored(f[i]) /\ "skip" \in f[i].marks
  /\ \E i \in 1..idx : IsIgnored(f[i]) /\ "end" \in f[i].marks
  /\ \E i \in 1..idx : ~IsIgnored(f[i]) /\ f[i].marks # {}

\* C8: the Markdown entry shows the PASSED line only if the scan status was
\* Pass; an Aborted package is not rendered as PASSED.
C8_PassedOnlyForPass ==
  (pc = "rendered" /\ md[1].result = "PASSED") => status = "Pass"

\* C10: the returned start_time is the timestamp outcome of the last
\* non-ignored start line scanned, so a later start line that fails to parse
\* resets it to None and the result is then not Aborted.
C10_LastStartWins ==
  Returned =>
    LET n == LastStart(f, idx)
        last == IF n = 0 THEN None ELSE GetTimestamp(f[n]).value
    IN  /\ start_time = last
        /\ last = None => status # "Aborted"

C10_Witness ==
  /\ Returned
  /\ \E i, j \in 1..idx :
       /\ i < j
       /\ IsStart(f[i]) /\ GetTimestamp(f[i]).value # None
       /\ j = LastStart(f, idx) /\ GetTimestamp(f[j]).value = None
  /\ start_time = None
  /\ status = "Not Supported"

-----------------------------------------------------------------------------
(* Properties of the reporting loop (checked under SpecPtests) *)

HasKeys(r) == {"Result", "ExpectedFailure"} \subseteq DOMAIN r

CausesError(r) ==
  /\ HasKeys(r)
  /\ \/ r.Result = "failed" /\ ~r.ExpectedFailure
     \/ r.Result = "blocked"

Tally(n, P(_)) == Cardinality({i \in 1..n : P(test_results[i])})

IsSkippedRec(r)      == HasKeys(r) /\ r.Result = "skipped"
IsBlockedRec(r)      == HasKeys(r) /\ r.Result = "blocked"
IsExpFailRec(r)      == HasKeys(r) /\ r.Result = "failed" /\ r.ExpectedFailure
IsUnexpFailRec(r)    == HasKeys(r) /\ r.Result = "failed" /\ ~r.ExpectedFailure
IsExpSuccessRec(r)   == HasKeys(r) /\ r.Result = "succeeded" /\ ~r.ExpectedFailure
IsUnexpSuccessRec(r) == HasKeys(r) /\ r.Result = "succeeded" /\ r.ExpectedFailure

\* Every record has the three keys of the results file format.
RecordsWellFormed ==
  \A i \in 1..Len(test_results) :
    {"Result", "ExpectedFailure", "LogPath"} \subseteq DOMAIN test_results[i]

\* Processing this record raises: a key that is read is missing, or the log
\* of a failed record cannot be opened or read while --markdown-report is
\* given.
ReportRaises(r) ==
  \/ ~HasKeys(r)
  \/ /\ r.Result = "failed"
     /\ \/ "LogPath" \notin DOMAIN r
        \/ markdown_report /\ r.LogPath \in {"unopenable", "undecodable"}

\* C9 as stated: once every record (each with Result, ExpectedFailure and
\* LogPath) is processed the script exits with an error exactly when some
\* record is failed without ExpectedFailure or blocked; a record failed as
\* expected never causes the error exit.
C9_ErrorExitIffFailedOrBlocked ==
  (ppc \in {"exited", "crashed"} /\ ri = Len(test_results) /\ RecordsWellFormed) =>
    (exit_code = Some(1)
       <=> \E i \in 1..Len(test_results) : CausesError(test_results[i]))

\* C9 amended: a record whose keys are read adds one to its own counter
\* only, and an unknown Result to none; when the loop ends without an
\* exception the script exits after the last record, with an error exactly
\* when some record is failed without ExpectedFailure or blocked; a record
\* whose processing raises (among them a record failed as expected) ends the
\* run at that record with an error status.
C9_ErrorExitIffFailedOrBlockedOrRaised ==
  /\ counts = [unexpected_fail    |-> Tally(ri, IsUnexpFailRec),
               expected_fail      |-> Tally(ri, IsExpFailRec),
               skip               |-> Tally(ri, IsSkippedRec),
               block              |-> Tally(ri, IsBlockedRec),
               expected_success   |-> Tally(ri, IsExpSuccessRec),
               unexpected_success |-> Tally(ri, IsUnexpSuccessRec)]
  /\ ppc = "report" => exit_code = None
  /\ ppc = "exited" =>
       /\ ri = Len(test_results)
       /\ exit_code \in {Some(0), Some(1)}
       /\ exit_code = Some(1)
            <=> \E i \in 1..Len(test_results) : CausesError(test_results[i])
  /\ \A i \in 1..ri :
       ReportRaises(test_results[i]) =>
         (ppc = "crashed" /\ i = ri /\ exit_code = Some(1))
  /\ ppc = "crashed" => exit_code = Some(1)

C9_Witness ==
  /\ ppc = "exited"
  /\ exit_code = Some(1)
  /\ \E i \in 1..Len(test_results) : IsBlockedRec(test_results[i])
  /\ \A i \in 1..Len(test_results) : ~IsUnexpFailRec(test_results[i])
  /\ \E i \in 1..Len(test_results) : IsExpFailRec(test_results[i])
  /\ \E i \in 1..Len(test_results) :
       /\ HasKeys(test_results[i])
       /\ test_results[i].Result \notin {"skipped", "blocked", "failed", "succeeded"}

====
